---- MODULE Spec2Model ----
(***************************************************************************)
(* Model of the Nachos file header (filesys/filehdr.cc): a fixed table of  *)
(* sector pointers whose last slot may hold the sector of another file     *)
(* header, operated against the bitmap of free disk sectors; of the Bridge *)
(* and Buffer monitors of threads/synchtest.cc with the threads that use   *)
(* them; and of the system-call entry of userprog/exception.cc.            *)
(***************************************************************************)
EXTENDS Integers, FiniteSets, Sequences, TLC

(***************************************************************************)
(* Sizes.  SectorSize, NumDirect and MaxFileSize are the constants of      *)
(* disk.h and filehdr.h (SectorSize 128, NumDirect 30, MaxFileSize         *)
(* NumDirect * SectorSize there), scaled down.  NumSectors is the size of  *)
(* the disk, MaxSize the largest size a caller asks for, MaxCalls the      *)
(* number of calls of a run.                                               *)
(***************************************************************************)
SectorSize == 2
NumDirect == 3
MaxFileSize == NumDirect * SectorSize
NumSectors == 9
MaxSize == 13
MaxCalls == 3

Sectors == 0 .. (NumSectors - 1)
Sizes == 0 .. MaxSize
Headers == 1 .. 2
Slots == 0 .. (NumDirect - 1)
NoSector == -1

VARIABLES
  freeMap,   \* the set of sectors marked in the bitmap
  disk,      \* sector -> file header image, for the sectors a header was written to
  hdr,       \* the caller's in-memory headers
  status,    \* per header: "empty", "live", "failed", "freed", "aborted"
  last,      \* the last call: operation, arguments, result, state before it
  start,     \* the bitmap the run started from
  calls,     \* the number of Allocate, Extend and Deallocate calls made
  plan,      \* the sizes a <= b <= c of the Allocate/Extend/Extend run
  pc         \* position in that run

fileVars == <<freeMap, disk, hdr, status, last, start, calls, plan, pc>>

VARIABLES
  numCars,       \* Bridge::numCars
  currentDirec,  \* Bridge::currentDirec
  car            \* per SynchThread: where it is, and its loop counter num

bridgeVars == <<numCars, currentDirec, car>>

VARIABLES
  currentNum,    \* Buffer::currentNum
  producer,      \* per SynchProducer: where it is, and its loop counter i
  consumer       \* per SynchConsumer: where it is, and its loop counter i

bufferVars == <<currentNum, producer, consumer>>

VARIABLES
  program,       \* the user program: the system-call code of each of its calls
  PCReg,         \* the program counter of the simulated machine
  r2,            \* register 2: system-call code in, result out
  mode,          \* "user", "halted" (interrupt->Halt) or "aborted" (ASSERT)
  threads,       \* the number of threads SysCallExecHandler has forked
  trap           \* the last system call handled: its address and code

machineVars == <<program, PCReg, r2, mode, threads, trap>>

vars == <<fileVars, bridgeVars, bufferVars, machineVars>>

(***************************************************************************)
(* Sizes of the synchronisation test.  MaxOnBridge and Trips are the 3 of  *)
(* Bridge::Arrive and the 5 of SynchThread; maxCars is the number of       *)
(* SynchThread threads.  numObjects, maxProducer, maxConsumer and the two  *)
(* loop limits are those of Buffer, SynchTest, SynchProducer and           *)
(* SynchConsumer.                                                          *)
(***************************************************************************)
MaxOnBridge == 3
Trips == 5
maxCars == 4
numObjects == 5
maxProducer == 3
maxConsumer == 3
ProducerOps == 8
ConsumerOps == 8

Cars == 1 .. maxCars
Producers == 1 .. maxProducer
Consumers == 1 .. maxConsumer

\* Bridge::Bridge, with every SynchThread about to make its first trip
BridgeNew ==
  /\ numCars = 0
  /\ currentDirec = 0
  /\ car = [c \in Cars |-> [pc |-> "arrive", num |-> 0]]

\* Buffer::Buffer, with the threads SynchTest forks about to start
BufferNew ==
  /\ currentNum = 0
  /\ producer = [p \in Producers |-> [pc |-> "produce", i |-> 0]]
  /\ consumer = [c \in Consumers |-> [pc |-> "consume", i |-> 0]]

(***************************************************************************)
(* The simulated machine.  A user program is a row of system-call stubs,   *)
(* each two instructions long: one that loads the call's code into         *)
(* register 2, and the syscall instruction.  SC_Halt and SC_Exec are the   *)
(* codes of syscall.h; MaxCode is the largest code a program uses, ProgLen *)
(* the number of stubs, MaxThreads the number of threads Exec can fork.    *)
(***************************************************************************)
SC_Halt == 0
SC_Exec == 2
InstrSize == 4
MaxCode == 3
ProgLen == 3
MaxThreads == 2

Codes == 0 .. MaxCode
StubSize == 2 * InstrSize
Programs == [0 .. (ProgLen - 1) -> Codes]
HaltOnly == [k \in 0 .. (ProgLen - 1) |-> SC_Halt]
NoTrap == [pc |-> -1, type |-> -1]

\* a machine about to run `prog` from address 0
MachineLoaded(prog) ==
  /\ program = prog
  /\ PCReg = 0
  /\ r2 = 0
  /\ mode = "user"
  /\ threads = 0
  /\ trap = NoTrap

(***************************************************************************)
(* Collaborators: utility, bitmap, disk.                                   *)
(***************************************************************************)
divRoundUp(n, s) == (n + s - 1) \div s

\* C++ integer division truncates toward zero
CDiv(a, b) == IF a >= 0 THEN a \div b ELSE -((-a) \div b)

NumClear(fm) == NumSectors - Cardinality(fm)

Test(fm, s) == s \in fm

Clear(fm, s) == fm \ {s}

\* the sector BitMap::Find returns: the lowest clear one, or -1
Find(fm) ==
  IF fm = Sectors THEN NoSector
  ELSE CHOOSE s \in Sectors \ fm : \A t \in Sectors \ fm : s <= t

\* the bitmap after that Find
Mark(fm, s) == IF s \in Sectors THEN fm \cup {s} ELSE fm

\* a header as constructed: no bytes, no sectors
FreshHeader ==
  [numBytes |-> 0, numSectors |-> 0, dataSectors |-> [i \in Slots |-> NoSector]]

WriteSector(dk, s, image) ==
  IF s \in Sectors
  THEN [x \in (DOMAIN dk) \cup {s} |-> IF x = s THEN image ELSE dk[x]]
  ELSE dk

\* whether ReadSector(s) delivers a file header image
Readable(dk, s) == s \in DOMAIN dk

ReadSector(dk, s) == dk[s]

(***************************************************************************)
(* The conditions of Allocate and Extend.                                  *)
(***************************************************************************)
AllocateTooBigInSectors(fileSize) ==
  divRoundUp(fileSize, SectorSize) > MaxFileSize

AllocateTooBig(fileSize) == fileSize > MaxFileSize

ExtendTooBig(fileSize) == divRoundUp(fileSize, SectorSize) > MaxFileSize

NotEnoughSpace(fm, sectors) == NumClear(fm) < sectors

NeedsIndirect(fileSize) == fileSize > (NumDirect - 1) * SectorSize

RemainderWhole(fileSize) == fileSize

\* what is handed to the indirection node
Remainder(fileSize) == fileSize - (NumDirect - 1) * SectorSize

\* for (i = from; i < to; i++) dataSectors[i] = freeMap->Find();
RECURSIVE FindInto(_, _, _, _)
FindInto(fm, ds, from, to) ==
  IF from >= to
  THEN [freeMap |-> fm, dataSectors |-> ds, findFailed |-> FALSE]
  ELSE LET s == Find(fm)
           r == FindInto(Mark(fm, s), [ds EXCEPT ![from] = s], from + 1, to)
       IN  [r EXCEPT !.findFailed = r.findFailed \/ s = NoSector]

Outcome(ret, fm, dk, h, ff) ==
  [ret |-> ret, freeMap |-> fm, disk |-> dk, hdr |-> h, findFailed |-> ff]

(***************************************************************************)
(* FileHeader::Allocate                                                    *)
(***************************************************************************)
RECURSIVE Allocate(_, _, _, _)
Allocate(fm, dk, h, fileSize) ==
  IF AllocateTooBig(fileSize)
  THEN Outcome("FALSE", fm, dk, h, FALSE)
  ELSE
    LET h1 == [h EXCEPT !.numBytes = fileSize,
                        !.numSectors = divRoundUp(fileSize, SectorSize)]
    IN
    IF NotEnoughSpace(fm, h1.numSectors)
    THEN Outcome("FALSE", fm, dk, h1, FALSE)
    ELSE IF NeedsIndirect(fileSize)
    THEN
      LET d  == FindInto(fm, h1.dataSectors, 0, NumDirect - 1)
          h2 == [h1 EXCEPT !.dataSectors = d.dataSectors]
          c  == Allocate(d.freeMap, dk, FreshHeader, Remainder(fileSize))
      IN
      IF c.ret # "TRUE"
      THEN Outcome("FALSE", c.freeMap, c.disk, h2, d.findFailed \/ c.findFailed)
      ELSE
        LET s == Find(c.freeMap)
        IN  Outcome("TRUE", Mark(c.freeMap, s), WriteSector(c.disk, s, c.hdr),
                    [h2 EXCEPT !.dataSectors[NumDirect - 1] = s],
                    d.findFailed \/ c.findFailed \/ s = NoSector)
    ELSE
      LET d == FindInto(fm, h1.dataSectors, 0, h1.numSectors)
      IN  Outcome("TRUE", d.freeMap, dk,
                  [h1 EXCEPT !.dataSectors = d.dataSectors], d.findFailed)

(***************************************************************************)
(* FileHeader::Extend.  The result of the nested Allocate is not looked    *)
(* at.  A header whose indirection sector cannot be read back stops the    *)
(* call ("ABORT").                                                         *)
(***************************************************************************)
\* return FALSE at the head of Extend: nothing has been touched
ExtendRejectedAfterSet(fm, dk, h, fileSize) ==
  Outcome("FALSE", fm, dk,
          [h EXCEPT !.numBytes = fileSize,
                    !.numSectors = divRoundUp(fileSize, SectorSize)], FALSE)

ExtendRejected(fm, dk, h, fileSize) == Outcome("FALSE", fm, dk, h, FALSE)

\* numBytes = newNumBytes; numSectors = newNumSectors;
GrownBytesOnly(h, newNumBytes, newNumSectors) ==
  [h EXCEPT !.numBytes = newNumBytes]

Grown(h, newNumBytes, newNumSectors) ==
  [h EXCEPT !.numBytes = newNumBytes, !.numSectors = newNumSectors]

RECURSIVE Extend(_, _, _, _)
Extend(fm, dk, h, fileSize) ==
  LET newNumBytes   == fileSize
      newNumSectors == divRoundUp(fileSize, SectorSize)
      done(x) == Grown(x, newNumBytes, newNumSectors)
  IN
  IF ExtendTooBig(fileSize)
  THEN ExtendRejected(fm, dk, h, fileSize)
  ELSE IF NotEnoughSpace(fm, newNumSectors)
  THEN ExtendRejected(fm, dk, h, fileSize)
  ELSE IF NeedsIndirect(fileSize)
  THEN
    IF h.numBytes <= (NumDirect - 1) * SectorSize
    THEN  \* from direct to indirect
      LET d  == FindInto(fm, h.dataSectors, h.numSectors, NumDirect - 1)
          c  == Allocate(d.freeMap, dk, FreshHeader, Remainder(fileSize))
          s  == Find(c.freeMap)
          h2 == [h EXCEPT !.dataSectors =
                            [d.dataSectors EXCEPT ![NumDirect - 1] = s]]
      IN  Outcome("TRUE", Mark(c.freeMap, s), WriteSector(c.disk, s, c.hdr),
                  done(h2), d.findFailed \/ c.findFailed \/ s = NoSector)
    ELSE  \* from indirect to indirect
      LET s == h.dataSectors[NumDirect - 1]
      IN
      IF ~Readable(dk, s)
      THEN Outcome("ABORT", fm, dk, h, FALSE)
      ELSE
        LET c == Extend(fm, dk, ReadSector(dk, s), Remainder(fileSize))
        IN
        IF c.ret # "TRUE"
        THEN Outcome(c.ret, c.freeMap, c.disk, h, c.findFailed)
        ELSE Outcome("TRUE", c.freeMap, WriteSector(c.disk, s, c.hdr),
                     done(h), c.findFailed)
  ELSE  \* from direct to direct
    LET d == FindInto(fm, h.dataSectors, h.numSectors, newNumSectors)
    IN  Outcome("TRUE", d.freeMap, dk,
                done([h EXCEPT !.dataSectors = d.dataSectors]), d.findFailed)

(***************************************************************************)
(* FileHeader::Deallocate.  ok is FALSE when an ASSERT fails (the sector   *)
(* tested is not marked) or the indirection sector cannot be read: the     *)
(* bitmap is then as it was at that point.                                 *)
(***************************************************************************)
\* for (i = from; i < to; i++) { ASSERT(Test(dataSectors[i])); Clear(dataSectors[i]); }
RECURSIVE ClearFrom(_, _, _, _)
ClearFrom(fm, ds, from, to) ==
  IF from >= to THEN [freeMap |-> fm, ok |-> TRUE]
  ELSE IF ~Test(fm, ds[from]) THEN [freeMap |-> fm, ok |-> FALSE]
  ELSE ClearFrom(Clear(fm, ds[from]), ds, from + 1, to)

RECURSIVE Deallocate(_, _, _)
Deallocate(fm, dk, h) ==
  IF h.numSectors <= NumDirect
  THEN ClearFrom(fm, h.dataSectors, 0, h.numSectors)
  ELSE
    LET d == ClearFrom(fm, h.dataSectors, 0, NumDirect - 1)
        s == h.dataSectors[NumDirect - 1]
    IN
    IF ~d.ok THEN d
    ELSE IF ~Readable(dk, s) THEN [freeMap |-> d.freeMap, ok |-> FALSE]
    ELSE
      LET c == Deallocate(d.freeMap, dk, ReadSector(dk, s))
      IN  IF ~c.ok THEN c
          ELSE ClearFrom(c.freeMap, h.dataSectors, NumDirect - 1, NumDirect)

(***************************************************************************)
(* FileHeader::ByteToSector: the set of values the call can return.  An    *)
(* index outside dataSectors reads whatever lies there (any value); a      *)
(* header whose indirection sector cannot be read returns nothing.         *)
(***************************************************************************)
AnyInt == NoSector .. NumSectors

RECURSIVE ByteToSector(_, _, _)
ByteToSector(dk, h, offset) ==
  IF h.numSectors <= NumDirect - 1
  THEN LET i == CDiv(offset, SectorSize)
       IN  IF i \in Slots THEN {h.dataSectors[i]} ELSE AnyInt
  ELSE
    LET s == h.dataSectors[NumDirect - 1]
    IN  IF ~Readable(dk, s) THEN {}
        ELSE ByteToSector(dk, ReadSector(dk, s), offset - (NumDirect - 1) * SectorSize)

FileLength(h) == h.numBytes

(***************************************************************************)
(* The callers: each header is allocated once, extended, translated and    *)
(* deallocated, all against the one bitmap.                                *)
(***************************************************************************)
NoCall ==
  [op |-> "none", h |-> 0, size |-> 0, ret |-> "none", sector |-> NoSector,
   findFailed |-> FALSE, preMap |-> {}, preHdr |-> FreshHeader]

Call(op, h, size, ret, sector, ff) ==
  [op |-> op, h |-> h, size |-> size, ret |-> ret, sector |-> sector,
   findFailed |-> ff, preMap |-> freeMap, preHdr |-> hdr[h]]

NoPlan == [a |-> 0, b |-> 0, c |-> 0]

\* A failed ASSERT or an unreadable indirection sector ends the program.
\* ByteToSector changes neither bitmap, disk nor header, so the calls that can
\* follow it are those that can follow the state it was made in: a run is
\* followed up to its first translation.
Running ==
  /\ \A h \in Headers : status[h] # "aborted"
  /\ last.op # "ByteToSector"

\* the bitmaps a run starts from: the first k sectors marked (the file
\* system's own), and possibly the sector after the first clear one
InitMaps ==
  UNION {{0 .. (k - 1), (0 .. (k - 1)) \cup ({k + 1} \cap Sectors)} :
           k \in 0 .. NumSectors}

\* no header in use, no call made
FileUnused ==
  /\ freeMap = {}
  /\ start = {}
  /\ disk = << >>
  /\ hdr = [h \in Headers |-> FreshHeader]
  /\ status = [h \in Headers |-> "empty"]
  /\ last = NoCall
  /\ calls = 0
  /\ plan = NoPlan
  /\ pc = "idle"

\* what the file header calls leave alone
notFileVars == <<bridgeVars, bufferVars, machineVars>>

Init ==
  /\ BridgeNew /\ BufferNew /\ MachineLoaded(HaltOnly)
  /\ freeMap \in InitMaps
  /\ start = freeMap
  /\ disk = << >>
  /\ hdr = [h \in Headers |-> FreshHeader]
  /\ status = [h \in Headers |-> "empty"]
  /\ last = NoCall
  /\ calls = 0
  /\ plan = NoPlan
  /\ pc = "idle"

\* h->Allocate(freeMap, fileSize), and what the caller keeps of it
CallAllocate(h, fileSize) ==
  LET r == Allocate(freeMap, disk, hdr[h], fileSize)
  IN  /\ freeMap' = r.freeMap
      /\ disk' = r.disk
      /\ hdr' = [hdr EXCEPT ![h] = r.hdr]
      /\ status' = [status EXCEPT ![h] = IF r.ret = "TRUE" THEN "live" ELSE "failed"]
      /\ last' = Call("Allocate", h, fileSize, r.ret, NoSector, r.findFailed)

\* h->Extend(freeMap, fileSize)
CallExtend(h, fileSize) ==
  LET r == Extend(freeMap, disk, hdr[h], fileSize)
  IN  /\ freeMap' = r.freeMap
      /\ disk' = r.disk
      /\ hdr' = [hdr EXCEPT ![h] = r.hdr]
      /\ status' = [status EXCEPT ![h] = IF r.ret = "ABORT" THEN "aborted" ELSE "live"]
      /\ last' = Call("Extend", h, fileSize, r.ret, NoSector, r.findFailed)

DoAllocate(h, fileSize) ==
  /\ Running
  /\ calls < MaxCalls
  /\ status[h] = "empty"
  /\ \A g \in Headers : g < h => status[g] # "empty"
  /\ CallAllocate(h, fileSize)
  /\ calls' = calls + 1
  /\ UNCHANGED <<start, plan, pc>>
  /\ UNCHANGED notFileVars

DoExtend(h, fileSize) ==
  /\ Running
  /\ calls < MaxCalls
  /\ status[h] = "live"
  /\ CallExtend(h, fileSize)
  /\ calls' = calls + 1
  /\ UNCHANGED <<start, plan, pc>>
  /\ UNCHANGED notFileVars

DoDeallocate(h) ==
  /\ Running
  /\ calls < MaxCalls
  /\ status[h] = "live"
  /\ LET r == Deallocate(freeMap, disk, hdr[h])
     IN  /\ freeMap' = r.freeMap
         /\ status' = [status EXCEPT ![h] = IF r.ok THEN "freed" ELSE "aborted"]
         /\ last' = Call("Deallocate", h, 0, IF r.ok THEN "TRUE" ELSE "ABORT",
                         NoSector, FALSE)
  /\ calls' = calls + 1
  /\ UNCHANGED <<disk, hdr, start, plan, pc>>
  /\ UNCHANGED notFileVars

DoByteToSector(h, offset) ==
  /\ Running
  /\ status[h] = "live"
  /\ 0 <= offset /\ offset < FileLength(hdr[h])
  /\ LET out == ByteToSector(disk, hdr[h], offset)
     IN  IF out = {}
         THEN /\ status' = [status EXCEPT ![h] = "aborted"]
              /\ last' = Call("ByteToSector", h, offset, "ABORT", NoSector, FALSE)
         ELSE /\ \E s \in out :
                   last' = Call("ByteToSector", h, offset, "TRUE", s, FALSE)
              /\ UNCHANGED status
  /\ UNCHANGED <<freeMap, disk, hdr, start, calls, plan, pc>>
  /\ UNCHANGED notFileVars

Next ==
  \/ \E h \in Headers, n \in Sizes : DoAllocate(h, n)
  \/ \E h \in Headers, n \in Sizes : DoExtend(h, n)
  \/ \E h \in Headers : DoDeallocate(h)
  \/ \E h \in Headers, o \in Sizes : DoByteToSector(h, o)

Spec == Init /\ [][Next]_vars

(***************************************************************************)
(* One header taken through Allocate(a), Extend(b), Extend(c) for sizes    *)
(* a <= b <= c, from every starting bitmap.                                *)
(***************************************************************************)
Plans ==
  {[a |-> x, b |-> y, c |-> z] : x \in Sizes, y \in Sizes, z \in Sizes}

InitMono ==
  /\ BridgeNew /\ BufferNew /\ MachineLoaded(HaltOnly)
  /\ freeMap \in InitMaps
  /\ start = freeMap
  /\ disk = << >>
  /\ hdr = [h \in Headers |-> FreshHeader]
  /\ status = [h \in Headers |-> "empty"]
  /\ last = NoCall
  /\ calls = 0
  /\ plan \in {p \in Plans : p.a <= p.b /\ p.b <= p.c}
  /\ pc = "allocate"

MonoAllocate ==
  /\ pc = "allocate"
  /\ CallAllocate(1, plan.a)
  /\ pc' = IF last'.ret = "TRUE" THEN "extendB" ELSE "failed"
  /\ calls' = calls + 1
  /\ UNCHANGED <<start, plan>>
  /\ UNCHANGED notFileVars

MonoExtendB ==
  /\ pc = "extendB"
  /\ CallExtend(1, plan.b)
  /\ pc' = IF last'.ret = "TRUE" THEN "extendC" ELSE "failed"
  /\ calls' = calls + 1
  /\ UNCHANGED <<start, plan>>
  /\ UNCHANGED notFileVars

MonoExtendC ==
  /\ pc = "extendC"
  /\ CallExtend(1, plan.c)
  /\ pc' = IF last'.ret = "TRUE" THEN "done" ELSE "failed"
  /\ calls' = calls + 1
  /\ UNCHANGED <<start, plan>>
  /\ UNCHANGED notFileVars

NextMono == MonoAllocate \/ MonoExtendB \/ MonoExtendC

SpecMono == InitMono /\ [][NextMono]_vars

(***************************************************************************)
(* Bridge and SynchThread.  Lock and Condition are those of synch.h: the   *)
(* lock lets one thread at a time run the code between Acquire and         *)
(* Release; Wait releases the lock and puts the caller to sleep, and a     *)
(* woken caller takes the lock again before Wait returns; Broadcast wakes  *)
(* every thread asleep in Wait.  A car at "arrive" is at the Acquire of    *)
(* Arrive or woken inside its Wait: either way it next evaluates the       *)
(* condition of the while loop with the lock held.                         *)
(***************************************************************************)
\* direc = num % 2;
direcOf(num) == num % 2

\* (numCars > 0) && ((numCars >= 3) || (direc != currentDirec))
MustWaitForDirecOnly(direc) ==
  (numCars > 0) /\ (direc # currentDirec)

MustWait(direc) ==
  (numCars > 0) /\ ((numCars >= MaxOnBridge) \/ (direc # currentDirec))

\* currentDirec = direc;
DirecKept(direc) == currentDirec

DirecTaken(direc) == direc

\* bridgeFull->Wait(lock): the caller sleeps
Asleep(cr, c) == [cr EXCEPT ![c].pc = "waiting"]

\* Condition::Broadcast: every car asleep in Wait is made ready
Broadcast(cr) ==
  [x \in DOMAIN cr |->
     IF cr[x].pc = "waiting" THEN [cr[x] EXCEPT !.pc = "arrive"] ELSE cr[x]]

\* bridgeFull->Broadcast(lock) in Exit
ExitWakesNobody(cr) == cr

ExitWakes(cr) == Broadcast(cr)

\* Bridge::Arrive(direc), up to its return or to the sleep in Wait
Arrive(c) ==
  /\ car[c].pc = "arrive"
  /\ LET direc == direcOf(car[c].num)
     IN  IF MustWait(direc)
         THEN /\ car' = Asleep(car, c)
              /\ UNCHANGED <<numCars, currentDirec>>
         ELSE /\ numCars' = numCars + 1
              /\ currentDirec' = DirecTaken(direc)
              /\ car' = [car EXCEPT ![c].pc = "cross"]
  /\ UNCHANGED <<fileVars, bufferVars, machineVars>>

\* Bridge::Cross(direc)
Cross(c) ==
  /\ car[c].pc = "cross"
  /\ car' = [car EXCEPT ![c].pc = "exit"]
  /\ UNCHANGED <<numCars, currentDirec, fileVars, bufferVars, machineVars>>

\* Bridge::Exit(direc), and the step of the for loop of SynchThread
Exit(c) ==
  /\ car[c].pc = "exit"
  /\ numCars' = numCars - 1
  /\ car' = [ExitWakes(car) EXCEPT
               ![c] = [pc  |-> IF car[c].num + 1 < Trips THEN "arrive" ELSE "done",
                       num |-> car[c].num + 1]]
  /\ UNCHANGED <<currentDirec, fileVars, bufferVars, machineVars>>

SynchThread(c) == Arrive(c) \/ Cross(c) \/ Exit(c)

InitBridge == FileUnused /\ BridgeNew /\ BufferNew /\ MachineLoaded(HaltOnly)

NextBridge ==
  \/ \E c \in Cars : Arrive(c)
  \/ \E c \in Cars : Cross(c)
  \/ \E c \in Cars : Exit(c)

SpecBridge == InitBridge /\ [][NextBridge]_vars

\* the ready list is first in, first out: a thread that stays ready runs
SpecBridgeFair == SpecBridge /\ \A c \in Cars : WF_vars(SynchThread(c))

\* the cars that have returned from Arrive and not yet called Exit
OnBridge == {c \in Cars : car[c].pc \in {"cross", "exit"}}

(***************************************************************************)
(* Buffer, SynchProducer and SynchConsumer.  One condition, bufferFull,    *)
(* serves both the producers waiting for room and the consumers waiting    *)
(* for an item.  A thread at "produce" or "consume" is at the Acquire of   *)
(* its call or woken inside its Wait.                                      *)
(***************************************************************************)
\* while(currentNum>=numObjects)
ProduceWaitsPastFull == currentNum > numObjects

ProduceMustWait == currentNum >= numObjects

\* while(currentNum<=0)
ConsumeMustWait == currentNum <= 0

\* Condition::Broadcast on the threads `ths`, which go on at `ready`
Woken(ths, ready) ==
  [x \in DOMAIN ths |->
     IF ths[x].pc = "waiting" THEN [ths[x] EXCEPT !.pc = ready] ELSE ths[x]]

\* bufferFull->Broadcast(lock) in Produce
ProduceWakes(ths, ready) == Woken(ths, ready)

\* bufferFull->Broadcast(lock) in Consume
ConsumeWakesNobody(ths, ready) == ths

ConsumeWakes(ths, ready) == Woken(ths, ready)

\* Buffer::Produce, up to its return or to the sleep in Wait, and the step
\* of the for loop of SynchProducer
Produce(p) ==
  /\ producer[p].pc = "produce"
  /\ IF ProduceMustWait
     THEN /\ producer' = [producer EXCEPT ![p].pc = "waiting"]
          /\ UNCHANGED <<currentNum, consumer>>
     ELSE /\ currentNum' = currentNum + 1
          /\ producer' =
               [ProduceWakes(producer, "produce") EXCEPT
                  ![p] = [pc |-> IF producer[p].i + 1 < ProducerOps
                                 THEN "produce" ELSE "done",
                          i  |-> producer[p].i + 1]]
          /\ consumer' = ProduceWakes(consumer, "consume")
  /\ UNCHANGED <<fileVars, bridgeVars, machineVars>>

\* Buffer::Consume, likewise, and the step of the for loop of SynchConsumer
Consume(c) ==
  /\ consumer[c].pc = "consume"
  /\ IF ConsumeMustWait
     THEN /\ consumer' = [consumer EXCEPT ![c].pc = "waiting"]
          /\ UNCHANGED <<currentNum, producer>>
     ELSE /\ currentNum' = currentNum - 1
          /\ consumer' =
               [ConsumeWakes(consumer, "consume") EXCEPT
                  ![c] = [pc |-> IF consumer[c].i + 1 < ConsumerOps
                                 THEN "consume" ELSE "done",
                          i  |-> consumer[c].i + 1]]
          /\ producer' = ConsumeWakes(producer, "produce")
  /\ UNCHANGED <<fileVars, bridgeVars, machineVars>>

\* SynchTest: maxProducer producers and maxConsumer consumers on one buffer
InitBuffer == FileUnused /\ BridgeNew /\ BufferNew /\ MachineLoaded(HaltOnly)

NextBuffer ==
  \/ \E p \in Producers : Produce(p)
  \/ \E c \in Consumers : Consume(c)

SpecBuffer == InitBuffer /\ [][NextBuffer]_vars

SpecBufferFair ==
  /\ SpecBuffer
  /\ \A p \in Producers : WF_vars(Produce(p))
  /\ \A c \in Consumers : WF_vars(Consume(c))

(***************************************************************************)
(* ExceptionHandler.  The machine raises SyscallException at a syscall     *)
(* instruction without moving the program counter; when the handler        *)
(* returns, the instruction at PCReg is run.                               *)
(***************************************************************************)
Exceptions == {"SyscallException", "AddressErrorException"}

\* Machine::AdvancePC: on to the next instruction
AdvancePC(pcv) == pcv + InstrSize

AtStub == PCReg % StubSize = 0 /\ PCReg \div StubSize < ProgLen

AtSyscall == PCReg % StubSize = InstrSize

\* the instruction of the stub that loads the call's code
LoadCode ==
  /\ mode = "user"
  /\ AtStub
  /\ r2' = program[PCReg \div StubSize]
  /\ PCReg' = PCReg + InstrSize
  /\ UNCHANGED <<program, mode, threads, trap>>
  /\ UNCHANGED <<fileVars, bridgeVars, bufferVars>>

\* SysCallHaltHandler: interrupt->Halt() does not return
SysCallHaltHandler ==
  /\ mode' = "halted"
  /\ UNCHANGED <<PCReg, r2, threads>>

\* SysCallExecHandler: `found` is whether fileSystem->Open found the file
SysCallExecHandler(found) ==
  /\ found => threads < MaxThreads
  /\ IF found
     THEN r2' = threads + 1 /\ threads' = threads + 1
     ELSE r2' = -1 /\ UNCHANGED threads
  /\ PCReg' = AdvancePC(PCReg)
  /\ UNCHANGED mode

\* ExceptionHandler(which), with type = machine->ReadRegister(2)
ExceptionHandler(which, found) ==
  /\ mode = "user"
  /\ which = "SyscallException" => AtSyscall
  /\ LET type == r2
     IN  IF which = "SyscallException"
         THEN /\ trap' = [pc |-> PCReg, type |-> type]
              /\ IF type = SC_Halt THEN SysCallHaltHandler
                 ELSE IF type = SC_Exec THEN SysCallExecHandler(found)
                 ELSE UNCHANGED <<PCReg, r2, mode, threads>>
         ELSE /\ mode' = "aborted"
              /\ UNCHANGED <<PCReg, r2, threads, trap>>
  /\ UNCHANGED program
  /\ UNCHANGED <<fileVars, bridgeVars, bufferVars>>

InitMachine ==
  /\ FileUnused /\ BridgeNew /\ BufferNew
  /\ \E prog \in Programs : MachineLoaded(prog)

NextMachine ==
  \/ LoadCode
  \/ \E which \in Exceptions, found \in BOOLEAN : ExceptionHandler(which, found)

SpecMachine == InitMachine /\ [][NextMachine]_vars

(***************************************************************************)
(* What a chain holds, read the way the claims state it.                   *)
(***************************************************************************)
\* the nodes of the chain of h: h and the indirection nodes stored on disk
RECURSIVE ChainNodes(_, _)
ChainNodes(dk, h) ==
  {h} \cup
    (IF h.numSectors > NumDirect - 1 /\ h.dataSectors[NumDirect - 1] \in DOMAIN dk
     THEN ChainNodes(dk, dk[h.dataSectors[NumDirect - 1]])
     ELSE {})

\* the sector of data sector number k of the file: pointer j of node i,
\* where k = i * (NumDirect - 1) + j
RECURSIVE ChainSector(_, _, _)
ChainSector(dk, h, k) ==
  IF k < NumDirect - 1 THEN h.dataSectors[k]
  ELSE IF h.dataSectors[NumDirect - 1] \in DOMAIN dk
       THEN ChainSector(dk, dk[h.dataSectors[NumDirect - 1]], k - (NumDirect - 1))
       ELSE NoSector

\* the number of indirection nodes a chain for fileSize bytes has
RECURSIVE IndirectNodes(_)
IndirectNodes(fileSize) ==
  IF fileSize > (NumDirect - 1) * SectorSize
  THEN 1 + IndirectNodes(fileSize - (NumDirect - 1) * SectorSize)
  ELSE 0

\* the in-use pointer slots of the chain of header g, as <<g, depth, slot, sector>>
RECURSIVE SlotsInUse(_, _, _, _)
SlotsInUse(dk, g, depth, h) ==
  IF h.numSectors > NumDirect - 1
  THEN {<<g, depth, i, h.dataSectors[i]>> : i \in Slots} \cup
       (IF h.dataSectors[NumDirect - 1] \in DOMAIN dk
        THEN SlotsInUse(dk, g, depth + 1, dk[h.dataSectors[NumDirect - 1]])
        ELSE {})
  ELSE {<<g, depth, i, h.dataSectors[i]>> : i \in 0 .. (h.numSectors - 1)}

LiveSlots ==
  UNION {SlotsInUse(disk, g, 0, hdr[g]) : g \in {x \in Headers : status[x] = "live"}}

Ceil(n, s) == IF n % s = 0 THEN n \div s ELSE (n \div s) + 1

(***************************************************************************)
(* C1: Allocate(n) returning TRUE on an empty header, then Deallocate on   *)
(* the same header, leaves the bitmap as it was before the Allocate: the   *)
(* same sectors are clear.                                                 *)
(***************************************************************************)
C1_DeallocateRestoresMap ==
  (calls = 2 /\ last.op = "Deallocate") =>
     (last.ret = "TRUE" /\ freeMap = start)

\* the case of the claim that holds: a header that is all direct
C1_DirectRestored ==
  /\ calls = 2 /\ last.op = "Deallocate" /\ last.ret = "TRUE"
  /\ last.preHdr.numSectors = NumDirect - 1
  /\ freeMap = start

(***************************************************************************)
(* C2: on a header reached by a successful Allocate and successful         *)
(* Extends, ByteToSector(offset) for 0 <= offset < FileLength() returns    *)
(* the sector the chain holds for data sector offset / SectorSize.         *)
(***************************************************************************)
C2_ByteToSectorIsChainSector ==
  (last.op = "ByteToSector" /\ ~(\E s \in LiveSlots : s[4] \notin Sectors)) =>
     (/\ last.ret = "TRUE"
      /\ last.sector = ChainSector(disk, hdr[last.h], last.size \div SectorSize))

\* the case of the claim that holds: an offset of an all-direct header
C2_DirectTranslated ==
  /\ last.op = "ByteToSector" /\ last.ret = "TRUE"
  /\ hdr[last.h].numSectors = NumDirect - 1
  /\ last.sector = hdr[last.h].dataSectors[last.size \div SectorSize]
  /\ last.sector \in freeMap

(***************************************************************************)
(* C3: an Allocate(n) that returns TRUE takes ceil(n / SectorSize) sectors *)
(* plus one per indirection node out of the bitmap, and none of its Find   *)
(* calls returned "no sector".                                             *)
(***************************************************************************)
C3_AllocateConsumes ==
  (last.op = "Allocate" /\ last.ret = "TRUE") =>
     (/\ NumClear(last.preMap) - NumClear(freeMap)
           = Ceil(last.size, SectorSize) + IndirectNodes(last.size)
      /\ ~last.findFailed)

\* the case of the claim that holds: an indirection node, with room for it
C3_IndirectConsumed ==
  /\ last.op = "Allocate" /\ last.ret = "TRUE"
  /\ IndirectNodes(last.size) = 1
  /\ NumClear(last.preMap) - NumClear(freeMap) = Ceil(last.size, SectorSize) + 1
  /\ ~last.findFailed

(***************************************************************************)
(* C4: for a <= b <= c, Allocate(a), Extend(b), Extend(c) on an empty      *)
(* header succeeds exactly when Allocate(c) does from the same bitmap, and *)
(* then gives the same numBytes, numSectors, chain and number of claimed   *)
(* sectors.                                                                *)
(***************************************************************************)
ChainShape(dk, h) == {<<n.numBytes, n.numSectors>> : n \in ChainNodes(dk, h)}

C4_ExtendLikeAllocate ==
  (pc \in {"done", "failed"}) =>
     LET direct == Allocate(start, << >>, FreshHeader, plan.c)
     IN  /\ (pc = "done") <=> (direct.ret = "TRUE")
         /\ (pc = "done") =>
               /\ hdr[1].numBytes = direct.hdr.numBytes
               /\ hdr[1].numSectors = direct.hdr.numSectors
               /\ ChainShape(disk, hdr[1]) = ChainShape(direct.disk, direct.hdr)
               /\ NumClear(freeMap) = NumClear(direct.freeMap)

\* the case of the claim that holds: both ways succeed and agree
C4_BothAgree ==
  /\ pc = "done" /\ plan.a < plan.b /\ plan.b < plan.c
  /\ LET direct == Allocate(start, << >>, FreshHeader, plan.c)
     IN  /\ direct.ret = "TRUE"
         /\ hdr[1] = direct.hdr
         /\ freeMap = direct.freeMap

(***************************************************************************)
(* C5: every sector number in an in-use pointer slot of a live chain is a  *)
(* sector marked in the bitmap, and no sector number is in two in-use      *)
(* slots.                                                                  *)
(***************************************************************************)
C5_SlotsMarkedAndUnshared ==
  /\ \A s \in LiveSlots : s[4] \in Sectors /\ s[4] \in freeMap
  /\ \A s, u \in LiveSlots : s[4] = u[4] => s = u

\* two live headers, one with an indirection node, for which the claim holds
C5_TwoChainsApart ==
  /\ \A g \in Headers : status[g] = "live"
  /\ \E g \in Headers : hdr[g].numSectors > NumDirect
  /\ \A s \in LiveSlots : s[4] \in freeMap
  /\ \A s, u \in LiveSlots : s[4] = u[4] => s = u

(***************************************************************************)
(* C6: after an Allocate or Extend that returns TRUE, every node of the    *)
(* chain (the header and each indirection node on disk) has                *)
(* numSectors = ceil(numBytes / SectorSize).                               *)
(***************************************************************************)
C6_SectorsMatchBytes ==
  (last.op \in {"Allocate", "Extend"} /\ last.ret = "TRUE") =>
     \A n \in ChainNodes(disk, hdr[last.h]) :
        n.numSectors = Ceil(n.numBytes, SectorSize)

C6_ExtendedChain ==
  /\ last.op = "Extend" /\ last.ret = "TRUE"
  /\ last.preHdr.numSectors > NumDirect - 1
  /\ hdr[last.h].numSectors > last.preHdr.numSectors
  /\ Cardinality(ChainNodes(disk, hdr[last.h])) >= 2

(***************************************************************************)
(* C7: Extend(newSize) returns FALSE for every newSize above MaxFileSize   *)
(* bytes, the ceiling of Allocate, whatever the header holds.              *)
(***************************************************************************)
C7_ExtendHasAllocateCeiling ==
  (last.op = "Extend" /\ last.size > MaxFileSize) => last.ret = "FALSE"

\* the sizes the ceiling of Extend does turn away
C7_TurnedAway ==
  /\ last.op = "Extend" /\ last.ret = "FALSE"
  /\ last.size > MaxFileSize
  /\ NumClear(last.preMap) >= Ceil(last.size, SectorSize)

C9_FailedAllocateKeepsMap ==
  (last.op = "Allocate" /\ last.ret = "FALSE") => freeMap = last.preMap

\* a refused Allocate that had clear sectors for its direct pointers
C9_RefusedWithRoomForDirect ==
  /\ last.op = "Allocate" /\ last.ret = "FALSE"
  /\ last.size > (NumDirect - 1) * SectorSize
  /\ last.size <= MaxFileSize
  /\ NumClear(last.preMap) >= NumDirect - 1
  /\ freeMap = last.preMap

(***************************************************************************)
(* C10: an Extend that returns FALSE leaves numBytes, numSectors, every    *)
(* pointer slot and the bitmap as they were; numBytes and numSectors       *)
(* change only in an Extend that returns TRUE.                             *)
(***************************************************************************)
C10_FailedExtendKeepsAll ==
  (last.op = "Extend") =>
     /\ (last.ret = "FALSE") =>
           (hdr[last.h] = last.preHdr /\ freeMap = last.preMap)
     /\ (\/ hdr[last.h].numBytes # last.preHdr.numBytes
         \/ hdr[last.h].numSectors # last.preHdr.numSectors) => last.ret = "TRUE"

\* an Extend refused for want of clear sectors, on a header that holds some
C10_RefusedForSpace ==
  /\ last.op = "Extend" /\ last.ret = "FALSE"
  /\ last.preHdr.numSectors > 0
  /\ Ceil(last.size, SectorSize) <= MaxFileSize
  /\ last.size > last.preHdr.numBytes
  /\ hdr[last.h] = last.preHdr /\ freeMap = last.preMap

(***************************************************************************)
(* C11: Deallocate on a header built by calls that all returned TRUE runs  *)
(* to completion: every sector it tests is a valid sector marked in the    *)
(* bitmap when it is tested.  Stated for a header built by one Allocate    *)
(* that returned TRUE.                                                     *)
(***************************************************************************)
C11_DeallocateCompletes ==
  (calls = 2 /\ last.op = "Deallocate") => last.ret = "TRUE"

\* the case of the claim that holds: a chain extended past NumDirect
\* sectors, whose indirection node is fetched and cleared
C11_ChainCleared ==
  /\ last.op = "Deallocate" /\ last.ret = "TRUE"
  /\ last.preHdr.numSectors > NumDirect
  /\ Readable(disk, last.preHdr.dataSectors[NumDirect - 1])

\* the node d levels below h, reached through the last slot of each node
RECURSIVE HasNode(_, _, _)
HasNode(dk, h, d) ==
  IF d = 0 THEN TRUE
  ELSE /\ Readable(dk, h.dataSectors[NumDirect - 1])
       /\ HasNode(dk, ReadSector(dk, h.dataSectors[NumDirect - 1]), d - 1)

RECURSIVE NodeAt(_, _, _)
NodeAt(dk, h, d) ==
  IF d = 0 THEN h
  ELSE NodeAt(dk, ReadSector(dk, h.dataSectors[NumDirect - 1]), d - 1)

\* this step is h->Extend(...) returning TRUE
ExtendedTrue(h) ==
  /\ calls' = calls + 1
  /\ last'.op = "Extend" /\ last'.h = h /\ last'.ret = "TRUE"

\* every slot in use before the step holds the same sector after it
SlotsKept(h) ==
  \A t \in SlotsInUse(disk, h, 0, hdr[h]) :
     /\ HasNode(disk', hdr'[h], t[2])
     /\ NodeAt(disk', hdr'[h], t[2]).dataSectors[t[3]] = t[4]

\* a last slot that has been given an indirection sector (it is written by
\* nothing else) holds the same sector after the step
IndirectionKept(h) ==
  \A d \in 0 .. NumSectors :
     (/\ HasNode(disk, hdr[h], d)
      /\ NodeAt(disk, hdr[h], d).dataSectors[NumDirect - 1] # NoSector)
     => /\ HasNode(disk', hdr'[h], d)
        /\ NodeAt(disk', hdr'[h], d).dataSectors[NumDirect - 1] =
             NodeAt(disk, hdr[h], d).dataSectors[NumDirect - 1]

(***************************************************************************)
(* C14: an Extend that returns TRUE changes no pointer slot that was in    *)
(* use before the call, in any node of the chain, and a node that has once *)
(* been given an indirection sector keeps that sector number through every *)
(* later Extend.                                                           *)
(***************************************************************************)
C14_ExtendKeepsPointers ==
  [][\A h \in Headers :
       ExtendedTrue(h) => (SlotsKept(h) /\ IndirectionKept(h))]_vars

\* the case of the claim that holds: a chain with an indirection node grows
\* and every pointer it had is still there
C14_GrownChainKept ==
  /\ last.op = "Extend" /\ last.ret = "TRUE"
  /\ last.preHdr.numSectors > NumDirect - 1
  /\ hdr[last.h].numSectors > last.preHdr.numSectors
  /\ \A i \in Slots : hdr[last.h].dataSectors[i] = last.preHdr.dataSectors[i]
  /\ freeMap # last.preMap

(***************************************************************************)
(* C16: Extend with a new size below the header's numBytes returns FALSE   *)
(* and leaves numBytes, numSectors, the pointers and the bitmap unchanged. *)
(***************************************************************************)
C16_ShrinkRejected ==
  (last.op = "Extend" /\ last.size < last.preHdr.numBytes) =>
     /\ last.ret = "FALSE"
     /\ hdr[last.h] = last.preHdr
     /\ freeMap = last.preMap

\* the case of the claim that holds: a smaller size turned away because the
\* bitmap has fewer clear sectors than the new size needs
C16_ShrinkRefusedForSpace ==
  /\ last.op = "Extend" /\ last.size < last.preHdr.numBytes
  /\ last.ret = "FALSE"
  /\ hdr[last.h] = last.preHdr
  /\ freeMap = last.preMap

\* the sectors a traversal of the chain of header h from disk comes across
SectorsSeen(h) == {t[4] : t \in SlotsInUse(disk, h, 0, hdr[h])}

\* every node of the chain of h that has an indirection node has its image
\* on disk, at the sector in its last slot
ImagesStored(h) ==
  \A n \in ChainNodes(disk, hdr[h]) :
     n.numSectors > NumDirect - 1 => Readable(disk, n.dataSectors[NumDirect - 1])

(***************************************************************************)
(* C15: after an Allocate or Extend that returns TRUE, each indirection    *)
(* node of the chain has its up-to-date image on disk at its indirection   *)
(* sector, so that a traversal reading the chain from disk comes across    *)
(* every sector claimed during the call.                                   *)
(***************************************************************************)
C15_ImagesUpToDate ==
  (last.op \in {"Allocate", "Extend"} /\ last.ret = "TRUE") =>
     /\ ImagesStored(last.h)
     /\ (freeMap \ last.preMap) \subseteq SectorsSeen(last.h)

\* the case of the claim that holds: an Extend that grows the indirection
\* node, whose new sectors are found again through the image on disk
C15_ChildGrownOnDisk ==
  /\ last.op = "Extend" /\ last.ret = "TRUE"
  /\ last.preHdr.numSectors > NumDirect - 1
  /\ ImagesStored(last.h)
  /\ freeMap # last.preMap
  /\ (freeMap \ last.preMap) \subseteq SectorsSeen(last.h)

(***************************************************************************)
(* C12: in every interleaving of the car threads, the number of cars that  *)
(* have returned from Arrive and not yet called Exit is at most 3.         *)
(***************************************************************************)
C12_AtMostThreeOnBridge == Cardinality(OnBridge) <= MaxOnBridge

\* three cars on the bridge and a fourth, going their way, held in Wait
C12_FourthCarHeld ==
  /\ Cardinality(OnBridge) = MaxOnBridge
  /\ \E c \in Cars : /\ car[c].pc = "waiting"
                     /\ direcOf(car[c].num) = currentDirec

(***************************************************************************)
(* C13: all cars that are on the bridge at the same time (returned from    *)
(* Arrive, not yet called Exit) have the same direction.                   *)
(***************************************************************************)
C13_OneDirectionOnBridge ==
  \A a, b \in OnBridge : direcOf(car[a].num) = direcOf(car[b].num)

\* two cars crossing one way while a car going the other way is held in Wait
C13_OncomingCarHeld ==
  /\ Cardinality(OnBridge) = 2
  /\ \A a \in OnBridge : direcOf(car[a].num) = currentDirec
  /\ \E c \in Cars : /\ car[c].pc = "waiting"
                     /\ direcOf(car[c].num) # currentDirec

\* every car thread has made its trips
CarsFinished == \A c \in Cars : car[c].pc = "done"

\* every car that has not finished is asleep in bridgeFull->Wait
CarsAllBlocked ==
  /\ \E c \in Cars : car[c].pc # "done"
  /\ \A c \in Cars : car[c].pc \in {"waiting", "done"}

(***************************************************************************)
(* C18: under fair scheduling every car thread finishes its 5 trips (so    *)
(* each of its calls of Arrive has returned), and in no reachable state    *)
(* are all unfinished cars asleep in bridgeFull->Wait.                     *)
(***************************************************************************)
C18_EveryCarFinishes ==
  /\ [](~CarsAllBlocked)
  /\ <>CarsFinished

\* the cars not yet finished are asleep in Wait, but for one on the bridge:
\* they depend on the Broadcast of its Exit
C18_AsleepUntilLastExit ==
  /\ \E c \in Cars : car[c].pc = "waiting"
  /\ \E c \in Cars : car[c].pc = "done"
  /\ Cardinality(OnBridge) = 1
  /\ \A c \in Cars : car[c].pc \in {"waiting", "done", "cross", "exit"}

(***************************************************************************)
(* C19: in every interleaving of the producer and consumer threads the     *)
(* item count stays within 0 <= currentNum <= numObjects.                  *)
(***************************************************************************)
C19_CountWithinBuffer == 0 <= currentNum /\ currentNum <= numObjects

\* a full buffer with a producer asleep in Wait instead of adding to it
C19_ProducerHeldAtFull ==
  /\ currentNum = numObjects
  /\ \E p \in Producers : producer[p].pc = "waiting"

\* every producer and consumer has left its for loop
BufferThreadsDone ==
  /\ \A p \in Producers : producer[p].pc = "done" /\ producer[p].i = ProducerOps
  /\ \A c \in Consumers : consumer[c].pc = "done" /\ consumer[c].i = ConsumerOps

\* some thread has not finished, and all that have not are asleep in Wait
BufferAllBlocked ==
  /\ \A p \in Producers : producer[p].pc \in {"waiting", "done"}
  /\ \A c \in Consumers : consumer[c].pc \in {"waiting", "done"}
  /\ \/ \E p \in Producers : producer[p].pc = "waiting"
     \/ \E c \in Consumers : consumer[c].pc = "waiting"

(***************************************************************************)
(* C20: with 3 producers and 3 consumers of 8 operations each on a buffer  *)
(* of 5, under fair scheduling every thread completes its 8 operations,    *)
(* the unfinished threads are never all asleep in Wait, and the buffer     *)
(* then holds 0 items.                                                     *)
(***************************************************************************)
C20_AllComplete ==
  /\ [](~BufferAllBlocked)
  /\ [](BufferThreadsDone => currentNum = 0)
  /\ <>BufferThreadsDone

\* producers asleep on a full buffer and consumers asleep on an empty one
\* have both been woken through the one condition: all have finished
C20_FinishedAndEmpty ==
  /\ BufferThreadsDone
  /\ currentNum = 0

(***************************************************************************)
(* C17: whenever ExceptionHandler has handled a system call and returned   *)
(* to the user program, whatever the code in register 2, the program       *)
(* counter is past the syscall instruction.                                *)
(***************************************************************************)
C17_ReturnsPastSyscall ==
  (mode = "user" /\ trap # NoTrap) => PCReg > trap.pc

\* the case of the claim that holds: an Exec whose file was not found
\* returns -1 with the program counter on the next instruction
C17_ExecReturnsAdvanced ==
  /\ mode = "user"
  /\ trap # NoTrap /\ trap.type = SC_Exec
  /\ r2 = -1
  /\ PCReg = trap.pc + InstrSize

====
